---------------------------- MODULE Spec2Model ----------------------------
(***************************************************************************)
(* Academic search URL generator: the SearchURLGenerator (validation and   *)
(* the IEEE / Scopus serializers) and the UIManager that owns the form     *)
(* data and drives the generator.                                          *)
(*                                                                         *)
(* A JavaScript string is modelled as a sequence of one-character strings, *)
(* so that trim, join, includes and the two URL encoders are computed      *)
(* character by character.                                                 *)
(***************************************************************************)
EXTENDS Integers, Sequences, FiniteSets, TLC

VARIABLES
    currentDatabase,   \* SearchURLGenerator.currentDatabase
    formData,          \* UIManager.formData (the model handed to the generator)
    termGroupCounter,  \* UIManager.termGroupCounter
    searchGenerator,   \* UIManager.searchGenerator: FALSE is null, TRUE is the generator
    selectOptions,     \* the option values of the #searchField select, in order
    urlText,           \* urlText.textContent: the preview
    notificationText,  \* notificationText.textContent
    clipboard,         \* the text last written to the clipboard
    opened,            \* the url last passed to window.open
    pc,                \* position of AcademicSearchGenerator.init
    events,            \* number of user events handled so far
    api,               \* the last call made on the generator and what it returned
    calls              \* the calls of the last updateURLPreview that reached the
                       \* generator, in order, each with the form data it was given

vars == <<currentDatabase, formData, termGroupCounter, searchGenerator,
          selectOptions, urlText, notificationText, clipboard, opened, pc,
          events, api, calls>>

uiVars == <<termGroupCounter, searchGenerator, selectOptions, urlText,
            notificationText, clipboard, opened, pc, events, calls>>

-----------------------------------------------------------------------------
(* Strings *)

WhiteSpace == {" ", "\t", "\n"}

Digits == <<"0","1","2","3","4","5","6","7","8","9">>

Letters ==
    {"a","b","c","d","e","f","g","h","i","j","k","l","m","n","o","p","q","r",
     "s","t","u","v","w","x","y","z","A","B","C","D","E","F","G","H","I","J",
     "K","L","M","N","O","P","Q","R","S","T","U","V","W","X","Y","Z"}

AlphaNum == Letters \cup {Digits[i] : i \in 1..10}

RECURSIVE NatToString(_)
NatToString(n) ==
    IF n < 10 THEN <<Digits[n + 1]>>
    ELSE NatToString(n \div 10) \o <<Digits[(n % 10) + 1]>>

\* `${v}` and v.toString() for an integer.
NumberToString(v) ==
    IF v < 0 THEN <<"-">> \o NatToString(0 - v) ELSE NatToString(v)

\* A trim that strips the leading white space only.
trim_keepTrailing(s) ==
    LET idx == {i \in 1..Len(s) : s[i] \notin WhiteSpace}
    IN  IF idx = {} THEN <<>>
        ELSE SubSeq(s, CHOOSE i \in idx : \A j \in idx : i <= j, Len(s))

\* String.prototype.trim
trim(s) ==
    LET idx == {i \in 1..Len(s) : s[i] \notin WhiteSpace}
    IN  IF idx = {} THEN <<>>
        ELSE SubSeq(s, CHOOSE i \in idx : \A j \in idx : i <= j,
                       CHOOSE i \in idx : \A j \in idx : i >= j)

\* Array.prototype.join
RECURSIVE join(_, _)
join(strs, sep) ==
    IF Len(strs) = 0 THEN <<>>
    ELSE IF Len(strs) = 1 THEN strs[1]
    ELSE strs[1] \o sep \o join(Tail(strs), sep)

\* The concatenation of a sequence of strings.
RECURSIVE concat(_)
concat(strs) ==
    IF Len(strs) = 0 THEN <<>>
    ELSE IF Len(strs) = 1 THEN strs[1]
    ELSE LET h == Len(strs) \div 2
         IN  concat(SubSeq(strs, 1, h)) \o concat(SubSeq(strs, h + 1, Len(strs)))

\* String.prototype.includes
includes(s, sub) ==
    \E i \in 1..(Len(s) - Len(sub) + 1) : SubSeq(s, i, i + Len(sub) - 1) = sub

\* The two hexadecimal digits of the ASCII characters the encoders escape.
PercentCode(c) ==
    CASE c = " "  -> <<"%","2","0">>
      [] c = "\t" -> <<"%","0","9">>
      [] c = "\n" -> <<"%","0","A">>
      [] c = "!"  -> <<"%","2","1">>
      [] c = "\"" -> <<"%","2","2">>
      [] c = "#"  -> <<"%","2","3">>
      [] c = "%"  -> <<"%","2","5">>
      [] c = "&"  -> <<"%","2","6">>
      [] c = "'"  -> <<"%","2","7">>
      [] c = "("  -> <<"%","2","8">>
      [] c = ")"  -> <<"%","2","9">>
      [] c = "+"  -> <<"%","2","B">>
      [] c = ","  -> <<"%","2","C">>
      [] c = "/"  -> <<"%","2","F">>
      [] c = ":"  -> <<"%","3","A">>
      [] c = "<"  -> <<"%","3","C">>
      [] c = "="  -> <<"%","3","D">>
      [] c = ">"  -> <<"%","3","E">>
      [] c = "?"  -> <<"%","3","F">>
      [] c = "~"  -> <<"%","7","E">>

\* encodeURIComponent: everything but A-Z a-z 0-9 - _ . ! ~ * ' ( ) is escaped.
UriUnreserved == AlphaNum \cup {"-", "_", ".", "!", "~", "*", "'", "(", ")"}

encodeURIComponent(s) ==
    concat([i \in 1..Len(s) |->
              IF s[i] \in UriUnreserved THEN <<s[i]>> ELSE PercentCode(s[i])])

\* The application/x-www-form-urlencoded serializer of URLSearchParams.toString:
\* A-Z a-z 0-9 * - . _ are kept, a space becomes +, the rest is escaped.
FormUnreserved == AlphaNum \cup {"*", "-", ".", "_"}

formEncode(s) ==
    concat([i \in 1..Len(s) |->
              IF s[i] \in FormUnreserved THEN <<s[i]>>
              ELSE IF s[i] = " " THEN <<"+">>
              ELSE PercentCode(s[i])])

\* URLSearchParams.toString over a list of <<name, value>> pairs.
paramsToString(params) ==
    join([i \in 1..Len(params) |->
            formEncode(params[i][1]) \o <<"=">> \o formEncode(params[i][2])],
         <<"&">>)

-----------------------------------------------------------------------------
(* SearchURLGenerator *)

S_AllMetadata == <<"A","l","l"," ","M","e","t","a","d","a","t","a">>
S_TitleAbsKey == <<"T","I","T","L","E","-","A","B","S","-","K","E","Y">>
S_OR == <<"O","R">>
S_AND == <<"A","N","D">>

E_Unsupported ==
    <<"U","n","s","u","p","p","o","r","t","e","d"," ","d","a","t","a","b","a",
      "s","e"," ","t","y","p","e">>
E_TermRequired ==
    <<"A","t"," ","l","e","a","s","t"," ","o","n","e"," ","s","e","a","r","c",
      "h"," ","t","e","r","m"," ","i","s"," ","r","e","q","u","i","r","e","d">>
E_YearOrder ==
    <<"S","t","a","r","t"," ","y","e","a","r"," ","m","u","s","t"," ","b","e",
      " ","l","e","s","s"," ","t","h","a","n"," ","o","r"," ","e","q","u","a",
      "l"," ","t","o"," ","e","n","d"," ","y","e","a","r">>
W_YearRange ==
    <<"Y","e","a","r"," ","r","a","n","g","e"," ","s","h","o","u","l","d"," ",
      "b","e"," ","b","e","t","w","e","e","n"," ","1","9","0","0"," ","a","n",
      "d"," ","2","0","3","0">>
W_LargeQuery ==
    <<"L","a","r","g","e"," ","n","u","m","b","e","r"," ","o","f"," ","s","e",
      "a","r","c","h"," ","t","e","r","m","s"," ","m","a","y"," ","r","e","s",
      "u","l","t"," ","i","n"," ","v","e","r","y"," ","l","o","n","g"," ","U",
      "R","L","s">>

IEEE_baseURL ==
    <<"h","t","t","p","s",":","/","/","i","e","e","e","x","p","l","o","r","e",
      ".","i","e","e","e",".","o","r","g","/","s","e","a","r","c","h","/","s",
      "e","a","r","c","h","r","e","s","u","l","t",".","j","s","p">>
Scopus_baseURL ==
    <<"h","t","t","p","s",":","/","/","w","w","w",".","s","c","o","p","u","s",
      ".","c","o","m","/","r","e","s","u","l","t","s","/","r","e","s","u","l",
      "t","s",".","u","r","i">>

MinPlausibleYear == 1900
MaxPlausibleYear == 2030
LargeQueryTerms == 20

\* What a method call gives: a returned value or a thrown Error message.
Return(v) == [kind |-> "return", value |-> v]
Throw(msg) == [kind |-> "throw", value |-> msg]

\* A test for the empty string that does not trim.
nonBlank_untrimmed(term) == term # <<>>

\* term => term.trim() !== ''
nonBlank(term) == trim(term) # <<>>

\* group.terms.filter(term => term.trim() !== '')
filterTerms(terms) == SelectSeq(terms, nonBlank)

\* `("${group.searchField}":"${term.trim()}")`
ieeeClause(group, term) ==
    <<"(", "\"">> \o group.searchField \o <<"\"", ":", "\"">> \o trim(term)
        \o <<"\"", ")">>

\* A Scopus clause written in the grammar of IEEE.
scopusClause_ieeeGrammar(group, term) ==
    <<"(", "\"">> \o group.searchField \o <<"\"", ":", "\"">> \o trim(term)
        \o <<"\"", ")">>

\* `${group.searchField}("${term.trim()}")`
scopusClause(group, term) ==
    group.searchField \o <<"(", "\"">> \o trim(term) \o <<"\"", ")">>

\* A group text without the parentheses around the joined clauses.
ieeeGroupText_unwrapped(group) ==
    LET kept  == filterTerms(group.terms)
    IN  join([i \in 1..Len(kept) |-> ieeeClause(group, kept[i])],
             <<" ">> \o group.operator \o <<" ">>)

\* The callback of searchTerms.map in buildIEEEQueryText: '' or the
\* parenthesised group.
ieeeGroupText(group) ==
    LET kept  == filterTerms(group.terms)
        terms == join([i \in 1..Len(kept) |-> ieeeClause(group, kept[i])],
                      <<" ">> \o group.operator \o <<" ">>)
    IN  IF terms # <<>> THEN <<"(">> \o terms \o <<")">> ELSE <<>>

\* A group text that is parenthesised even when no term is kept.
scopusGroupText_alwaysWrapped(group) ==
    LET kept  == filterTerms(group.terms)
        terms == join([i \in 1..Len(kept) |-> scopusClause(group, kept[i])],
                      <<" ">> \o group.operator \o <<" ">>)
    IN  <<"(">> \o terms \o <<")">>

\* The callback of searchTerms.map in buildScopusQuery.
scopusGroupText(group) ==
    LET kept  == filterTerms(group.terms)
        terms == join([i \in 1..Len(kept) |-> scopusClause(group, kept[i])],
                      <<" ">> \o group.operator \o <<" ">>)
    IN  IF terms # <<>> THEN <<"(">> \o terms \o <<")">> ELSE <<>>

\* A filter that keeps the empty texts too.
nonEmptyText_keepAll(text) == TRUE

\* .filter(group => group !== '')
nonEmptyText(text) == text # <<>>

\* A separator that joins the groups with OR.
S_GroupJoin_OR == <<" ","O","R"," ">>

\* The separator of termGroups.join(' AND ')
S_GroupJoin == <<" ","A","N","D"," ">>

buildIEEEQueryText(searchTerms) ==
    LET texts == [i \in 1..Len(searchTerms) |-> ieeeGroupText(searchTerms[i])]
        termGroups == SelectSeq(texts, nonEmptyText)
    IN  IF Len(termGroups) = 0 THEN <<>>
        ELSE encodeURIComponent(join(termGroups, S_GroupJoin))

buildScopusQuery(searchTerms) ==
    LET texts == [i \in 1..Len(searchTerms) |-> scopusGroupText(searchTerms[i])]
        termGroups == SelectSeq(texts, nonEmptyText)
    IN  IF Len(termGroups) = 0 THEN <<>>
        ELSE encodeURIComponent(join(termGroups, S_GroupJoin))

generateIEEEURL(fd) ==
    LET queryText == buildIEEEQueryText(fd.searchTerms)
        params ==
            << <<<<"a","c","t","i","o","n">>, <<"s","e","a","r","c","h">>>>,
               <<<<"n","e","w","s","e","a","r","c","h">>, <<"t","r","u","e">>>>,
               <<<<"m","a","t","c","h","B","o","o","l","e","a","n">>,
                 <<"t","r","u","e">>>>,
               <<<<"q","u","e","r","y","T","e","x","t">>, queryText>>,
               <<<<"r","a","n","g","e","s">>,
                 NumberToString(fd.startYear) \o <<"_">>
                     \o NumberToString(fd.endYear) \o <<"_","Y","e","a","r">>>> >>
    IN  IEEE_baseURL \o <<"?">> \o paramsToString(params)

\* A Scopus URL whose upper bound is endYear itself.
generateScopusURL_inclusive(fd) ==
    LET searchQuery == buildScopusQuery(fd.searchTerms)
        yearClause ==
            <<"A","N","D"," ","P","U","B","Y","E","A","R"," ",">"," ">>
                \o NumberToString(fd.startYear)
                \o <<" ","A","N","D"," ","P","U","B","Y","E","A","R"," ","<"," ">>
                \o NumberToString(fd.endYear)
        \* params.set('s', `${currentS} ${encodeURIComponent(yearClause)}`)
        s == searchQuery \o <<" ">> \o encodeURIComponent(yearClause)
        params ==
            << <<<<"s","o","r","t">>, <<"p","l","f","-","f">>>>,
               <<<<"s","r","c">>, <<"s">>>>,
               <<<<"s","o","t">>, <<"a">>>>,
               <<<<"s","d","t">>, <<"a">>>>,
               <<<<"s","l">>, <<"2","1","1">>>>,
               <<<<"s">>, s>>,
               <<<<"o","r","i","g","i","n">>,
                 <<"s","e","a","r","c","h","a","d","v","a","n","c","e","d">>>>,
               <<<<"e","d","i","t","S","a","v","e","S","e","a","r","c","h">>, <<>>>>,
               <<<<"l","i","m","i","t">>, NumberToString(fd.resultsPerPage)>> >>
    IN  Scopus_baseURL \o <<"?">> \o paramsToString(params)

generateScopusURL(fd) ==
    LET searchQuery == buildScopusQuery(fd.searchTerms)
        yearClause ==
            <<"A","N","D"," ","P","U","B","Y","E","A","R"," ",">"," ">>
                \o NumberToString(fd.startYear)
                \o <<" ","A","N","D"," ","P","U","B","Y","E","A","R"," ","<"," ">>
                \o NumberToString(fd.endYear + 1)
        \* params.set('s', `${currentS} ${encodeURIComponent(yearClause)}`)
        s == searchQuery \o <<" ">> \o encodeURIComponent(yearClause)
        params ==
            << <<<<"s","o","r","t">>, <<"p","l","f","-","f">>>>,
               <<<<"s","r","c">>, <<"s">>>>,
               <<<<"s","o","t">>, <<"a">>>>,
               <<<<"s","d","t">>, <<"a">>>>,
               <<<<"s","l">>, <<"2","1","1">>>>,
               <<<<"s">>, s>>,
               <<<<"o","r","i","g","i","n">>,
                 <<"s","e","a","r","c","h","a","d","v","a","n","c","e","d">>>>,
               <<<<"e","d","i","t","S","a","v","e","S","e","a","r","c","h">>, <<>>>>,
               <<<<"l","i","m","i","t">>, NumberToString(fd.resultsPerPage)>> >>
    IN  Scopus_baseURL \o <<"?">> \o paramsToString(params)

\* generateURL(formData) on a generator whose currentDatabase is database:
\* the switch is on this.currentDatabase, formData.database is not read.
generateURL(database, fd) ==
    CASE database = "ieee"   -> Return(generateIEEEURL(fd))
      [] database = "scopus" -> Return(generateScopusURL(fd))
      [] OTHER -> Throw(E_Unsupported)

\* formData.searchTerms.some(group => group.terms.some(term => term.trim() !== ''))
hasValidTerms(fd) ==
    \E g \in 1..Len(fd.searchTerms) :
        \E t \in 1..Len(fd.searchTerms[g].terms) :
            nonBlank(fd.searchTerms[g].terms[t])

\* formData.searchTerms.reduce((total, group) => total + ..., 0)
RECURSIVE totalTerms(_)
totalTerms(searchTerms) ==
    IF Len(searchTerms) = 0 THEN 0
    ELSE Len(filterTerms(searchTerms[1].terms)) + totalTerms(Tail(searchTerms))

\* A year check that rejects equal years.
yearOrderViolated_strict(fd) == fd.startYear >= fd.endYear

\* formData.startYear > formData.endYear
yearOrderViolated(fd) == fd.startYear > fd.endYear

\* A size check that warns from 20 terms on.
largeQuery_atLeast(fd) == totalTerms(fd.searchTerms) >= LargeQueryTerms

\* totalTerms > 20
largeQuery(fd) == totalTerms(fd.searchTerms) > LargeQueryTerms

\* A validation that stops at the first rule violated.
validateFormData_shortCircuit(fd) ==
    IF ~hasValidTerms(fd)
    THEN [isValid |-> FALSE, errors |-> <<E_TermRequired>>, warnings |-> <<>>]
    ELSE IF yearOrderViolated(fd)
    THEN [isValid |-> FALSE, errors |-> <<E_YearOrder>>, warnings |-> <<>>]
    ELSE [isValid |-> TRUE, errors |-> <<>>,
          warnings |->
            (IF fd.startYear < MinPlausibleYear \/ fd.endYear > MaxPlausibleYear
                THEN <<W_YearRange>> ELSE <<>>)
            \o (IF largeQuery(fd) THEN <<W_LargeQuery>> ELSE <<>>)]

validateFormData(fd) ==
    LET errors ==
            (IF ~hasValidTerms(fd) THEN <<E_TermRequired>> ELSE <<>>)
            \o (IF yearOrderViolated(fd) THEN <<E_YearOrder>> ELSE <<>>)
        warnings ==
            (IF fd.startYear < MinPlausibleYear \/ fd.endYear > MaxPlausibleYear
                THEN <<W_YearRange>> ELSE <<>>)
            \o (IF largeQuery(fd) THEN <<W_LargeQuery>> ELSE <<>>)
    IN  [isValid |-> Len(errors) = 0, errors |-> errors, warnings |-> warnings]

getFieldOptions(database) ==
    CASE database = "ieee" ->
            << S_AllMetadata,
               <<"T","i","t","l","e">>,
               <<"A","b","s","t","r","a","c","t">>,
               <<"A","u","t","h","o","r","s">>,
               <<"K","e","y","w","o","r","d","s">> >>
      [] database = "scopus" ->
            << S_TitleAbsKey,
               <<"T","I","T","L","E">>,
               <<"A","B","S">>,
               <<"A","U","T","H">>,
               <<"K","E","Y">> >>
      [] OTHER -> <<>>

-----------------------------------------------------------------------------
(* The generator driven directly: a caller that holds one model and calls  *)
(* the generator's methods on it in any order.                            *)

MaxTerms == 3
MaxGroups == 3
MaxExtraTerms == 5

\* The databases setDatabase is documented to take, and the targets a model
\* may name: the two supported ones and one that is not.
SupportedDatabases == {"ieee", "scopus"}
Databases == SupportedDatabases \cup {"pubmed"}

S_x == <<"x">>
S_y == <<"y">>

\* Term values: empty, white space only, plain, and padded with white space.
TermValues == {<<>>, <<" ", " ">>, S_x, <<" ">> \o S_y \o <<" ">>}

YearValues == {1898, 1899, 1900, 2024, 2030, 2031}

SeqsUpTo(S, n) == UNION {[1..k -> S] : k \in 0..n}

Group(field, op, terms) ==
    [id |-> 0, searchField |-> field, operator |-> op, terms |-> terms]

Model(db, groups, startYear, endYear) ==
    [database |-> db, searchTerms |-> groups, startYear |-> startYear,
     endYear |-> endYear, searchField |-> S_AllMetadata, resultsPerPage |-> 50]

GroupKinds ==
    { Group(S_AllMetadata, S_OR, <<>>),
      Group(S_TitleAbsKey, S_AND, <<<<>>, <<" ", " ">>>>),
      Group(S_AllMetadata, S_AND, <<S_x>>),
      Group(S_TitleAbsKey, S_OR, <<<<" ">> \o S_y \o <<" ">>, <<>>, S_x>>),
      Group(S_AllMetadata, S_OR, <<S_y, S_x>>) }

\* One group with every list of terms.
TermModels ==
    { Model(db, <<Group(fo[1], fo[2], ts)>>, 2020, 2024) :
        db \in Databases,
        fo \in {<<S_AllMetadata, S_OR>>, <<S_TitleAbsKey, S_AND>>},
        ts \in SeqsUpTo(TermValues, MaxTerms) }

\* Every list of groups, each empty, blank or with terms.
GroupModels ==
    { Model(db, gs, 2020, 2024) :
        db \in Databases, gs \in SeqsUpTo(GroupKinds, MaxGroups) }

\* Every pair of years, with and without a term.
YearModels ==
    { Model(db, gs, sy, ey) :
        db \in Databases,
        gs \in { <<>>,
                 <<Group(S_TitleAbsKey, S_AND, <<<<>>, <<" ", " ">>>>)>>,
                 <<Group(S_AllMetadata, S_AND, <<S_x>>)>> },
        sy \in YearValues, ey \in YearValues }

\* n non-blank terms over two groups, with blank terms between them.
ManyTerms(n) ==
    << Group(S_AllMetadata, S_OR,
             [i \in 1..(n \div 2) |-> S_x] \o <<<<>>>>),
       Group(S_AllMetadata, S_AND,
             <<<<" ", " ">>>> \o [i \in 1..(n - (n \div 2)) |-> S_y]) >>

LargeModels ==
    { Model(db, ManyTerms(n), y[1], y[2]) :
        db \in Databases,
        n \in (LargeQueryTerms - 1)..(LargeQueryTerms + MaxExtraTerms),
        y \in {<<2020, 2024>>, <<1899, 2031>>} }

S_NeuralDecoding == <<"n","e","u","r","a","l"," ","d","e","c","o","d","i","n","g">>
S_BrainDecoding == <<"b","r","a","i","n"," ","d","e","c","o","d","i","n","g">>

ScenarioModels ==
    { Model(db, <<Group(f, S_OR, <<S_NeuralDecoding, S_BrainDecoding>>)>>,
            2019, 2026) :
        db \in Databases, f \in {S_AllMetadata, S_TitleAbsKey} }

GenModels ==
    TermModels \cup GroupModels \cup YearModels \cup LargeModels
        \cup ScenarioModels

NoCall == [op |-> "none", db |-> "none", ret |-> Return(<<>>)]

InitGen ==
    /\ currentDatabase = "ieee"
    /\ formData \in GenModels
    /\ termGroupCounter = 0
    /\ searchGenerator = FALSE
    /\ selectOptions = <<>>
    /\ urlText = <<>>
    /\ notificationText = <<>>
    /\ clipboard = <<>>
    /\ opened = <<>>
    /\ pc = "caller"
    /\ events = 0
    /\ api = NoCall
    /\ calls = <<>>

\* setDatabase(database)
setDatabase(database) ==
    /\ currentDatabase' = database
    /\ UNCHANGED <<formData, api>>
    /\ UNCHANGED uiVars

CallGenerateURL ==
    /\ api' = [op |-> "generateURL", db |-> currentDatabase,
               ret |-> generateURL(currentDatabase, formData)]
    /\ UNCHANGED <<currentDatabase, formData>>
    /\ UNCHANGED uiVars

CallValidateFormData ==
    /\ api' = [op |-> "validateFormData", db |-> currentDatabase,
               ret |-> validateFormData(formData)]
    /\ UNCHANGED <<currentDatabase, formData>>
    /\ UNCHANGED uiVars

CallBuildIEEEQueryText ==
    /\ api' = [op |-> "buildIEEEQueryText", db |-> currentDatabase,
               ret |-> Return(buildIEEEQueryText(formData.searchTerms))]
    /\ UNCHANGED <<currentDatabase, formData>>
    /\ UNCHANGED uiVars

CallBuildScopusQuery ==
    /\ api' = [op |-> "buildScopusQuery", db |-> currentDatabase,
               ret |-> Return(buildScopusQuery(formData.searchTerms))]
    /\ UNCHANGED <<currentDatabase, formData>>
    /\ UNCHANGED uiVars

CallSetDatabase == \E database \in SupportedDatabases : setDatabase(database)

NextGen ==
    \/ CallSetDatabase
    \/ CallGenerateURL
    \/ CallValidateFormData
    \/ CallBuildIEEEQueryText
    \/ CallBuildScopusQuery

SpecGen == InitGen /\ [][NextGen]_vars

-----------------------------------------------------------------------------
(* UIManager and the application *)

MaxEvents == 3
MaxUIGroups == 2
MaxUITerms == 3
MaxCounter == 3

DefaultStartYear == 2020
DefaultEndYear == 2024
DefaultResultsPerPage == 50

S_ErrorGenerating ==
    <<"E","r","r","o","r"," ","g","e","n","e","r","a","t","i","n","g"," ","U",
      "R","L",":"," ">>
S_NoURLToCopy ==
    <<"N","o"," ","v","a","l","i","d"," ","U","R","L"," ","t","o"," ","c","o",
      "p","y">>
S_NoURLToOpen ==
    <<"N","o"," ","v","a","l","i","d"," ","U","R","L"," ","t","o"," ","o","p",
      "e","n">>
S_Copied ==
    <<"U","R","L"," ","c","o","p","i","e","d"," ","t","o"," ","c","l","i","p",
      "b","o","a","r","d","!">>
S_FormCleared == <<"F","o","r","m"," ","c","l","e","a","r","e","d">>
S_Error == <<"E","r","r","o","r">>
S_required == <<"r","e","q","u","i","r","e","d">>

\* What the user can type into a term input, pick as a year and as a page size.
UITermValues == {<<>>, S_x, S_required}
UIYearValues == {2020, 2025}
UIPageSizes == {50, 100}
UIOperators == {S_OR, S_AND}
GroupIds == 1..MaxCounter

\* The option values of the #searchField select as the page is loaded.
InitialSelectOptions == getFieldOptions("ieee")

\* The formData of the UIManager constructor.
ConstructorFormData ==
    [database |-> "ieee", searchTerms |-> <<>>,
     startYear |-> DefaultStartYear, endYear |-> DefaultEndYear,
     searchField |-> S_AllMetadata, resultsPerPage |-> DefaultResultsPerPage]

\* A search that takes the first group whatever its id is.
findIndex_first(searchTerms, groupId) ==
    IF Len(searchTerms) = 0 THEN 0 ELSE 1

\* searchTerms.findIndex(group => group.id === groupId): 0 when there is none.
findIndex(searchTerms, groupId) ==
    LET hits == {i \in 1..Len(searchTerms) : searchTerms[i].id = groupId}
    IN  IF hits = {} THEN 0 ELSE CHOOSE i \in hits : \A j \in hits : i <= j

\* The text updateURLPreview leaves in the preview.
previewText(generator, database, fd, oldText) ==
    IF ~generator THEN oldText
    ELSE LET validation == validateFormData(fd)
         IN  IF ~validation.isValid THEN join(validation.errors, <<",", " ">>)
             ELSE LET url == generateURL(database, fd)
                  IN  IF url.kind = "return" THEN url.value
                      ELSE S_ErrorGenerating \o url.value

\* The last call updateURLPreview makes on the generator.
previewCall(generator, database, fd, oldCall) ==
    IF ~generator THEN oldCall
    ELSE LET validation == validateFormData(fd)
         IN  IF ~validation.isValid
             THEN [op |-> "validateFormData", db |-> database, ret |-> validation]
             ELSE [op |-> "generateURL", db |-> database,
                   ret |-> generateURL(database, fd)]

\* A preview that calls generateURL whatever the validation returned.
previewCalls_ungated(generator, database, fd, oldCalls) ==
    IF ~generator THEN oldCalls
    ELSE <<[op |-> "validateFormData", arg |-> fd, ret |-> validateFormData(fd)],
           [op |-> "generateURL", arg |-> fd, ret |-> generateURL(database, fd)]>>

\* The calls updateURLPreview makes on the generator, in order:
\* validateFormData(this.formData) and, when it is valid,
\* generateURL(this.formData).
previewCalls(generator, database, fd, oldCalls) ==
    IF ~generator THEN oldCalls
    ELSE LET validation == validateFormData(fd)
         IN  <<[op |-> "validateFormData", arg |-> fd, ret |-> validation]>>
             \o (IF ~validation.isValid THEN <<>>
                 ELSE <<[op |-> "generateURL", arg |-> fd,
                         ret |-> generateURL(database, fd)]>>)

\* A handler's change of the form data, followed by its updateURLPreview().
updateURLPreview(fd, database) ==
    /\ formData' = fd
    /\ currentDatabase' = database
    /\ urlText' = previewText(searchGenerator, database, fd, urlText)
    /\ api' = previewCall(searchGenerator, database, fd, api)
    /\ calls' = previewCalls(searchGenerator, database, fd, calls)

UserEvent ==
    /\ pc = "ready"
    /\ events < MaxEvents
    /\ events' = events + 1
    /\ UNCHANGED <<searchGenerator, pc>>

\* The group addTermGroup pushes.
newTermGroup(counter, fd) ==
    [id |-> counter, searchField |-> fd.searchField, operator |-> S_OR,
     terms |-> <<<<>>, <<>>>>]

\* The field updateFieldOptions leaves selected: the last option that is a
\* canonical default, or the old field when there is none.
selectedDefault(options, oldField) ==
    LET hits == {i \in 1..Len(options) :
                    options[i] = S_AllMetadata \/ options[i] = S_TitleAbsKey}
    IN  IF hits = {} THEN oldField
        ELSE options[CHOOSE i \in hits : \A j \in hits : i >= j]

Init ==
    /\ currentDatabase = "none"
    /\ formData = ConstructorFormData
    /\ termGroupCounter = 0
    /\ searchGenerator = FALSE
    /\ selectOptions = InitialSelectOptions
    /\ urlText = <<>>
    /\ notificationText = <<>>
    /\ clipboard = <<>>
    /\ opened = <<>>
    /\ pc = "loading"
    /\ events = 0
    /\ api = NoCall
    /\ calls = <<>>

\* AcademicSearchGenerator.init: new SearchURLGenerator(), new UIManager()
\* (whose initializeDefaultState adds the example group and calls
\* updateURLPreview twice while searchGenerator is still null), then
\* setSearchGenerator.
init ==
    /\ pc = "loading"
    /\ currentDatabase' = "ieee"
    /\ LET added == [ConstructorFormData EXCEPT
                        !.searchTerms = <<newTermGroup(1, ConstructorFormData)>>]
           fd == [added EXCEPT
                        !.searchTerms[1].terms = <<S_NeuralDecoding, S_BrainDecoding>>,
                        !.searchTerms[1].searchField = S_AllMetadata]
       IN  /\ formData' = fd
           /\ urlText' = previewText(FALSE, "ieee", fd,
                             previewText(FALSE, "ieee", added, urlText))
           /\ api' = previewCall(FALSE, "ieee", fd, api)
           /\ calls' = previewCalls(FALSE, "ieee", fd,
                           previewCalls(FALSE, "ieee", added, calls))
    /\ termGroupCounter' = 1
    /\ searchGenerator' = TRUE
    /\ pc' = "ready"
    /\ UNCHANGED <<selectOptions, notificationText, clipboard, opened, events>>

\* A tab change that records the target in the form data only.
handleDatabaseChange_formOnly(database) ==
    /\ UserEvent
    /\ LET options == IF searchGenerator THEN getFieldOptions(database)
                      ELSE selectOptions
           field == IF searchGenerator
                    THEN selectedDefault(options, formData.searchField)
                    ELSE formData.searchField
           \* updateFieldOptions sets formData.searchField and leaves the
           \* groups of formData.searchTerms as they are.
           fd == [formData EXCEPT !.database = database, !.searchField = field]
       IN  /\ selectOptions' = options
           /\ updateURLPreview(fd, currentDatabase)
    /\ UNCHANGED <<termGroupCounter, notificationText, clipboard, opened>>

handleDatabaseChange(database) ==
    /\ UserEvent
    /\ LET options == IF searchGenerator THEN getFieldOptions(database)
                      ELSE selectOptions
           field == IF searchGenerator
                    THEN selectedDefault(options, formData.searchField)
                    ELSE formData.searchField
           \* updateFieldOptions sets formData.searchField and leaves the
           \* groups of formData.searchTerms as they are.
           fd == [formData EXCEPT !.database = database, !.searchField = field]
       IN  /\ selectOptions' = options
           /\ updateURLPreview(fd, IF searchGenerator THEN database
                                   ELSE currentDatabase)
    /\ UNCHANGED <<termGroupCounter, notificationText, clipboard, opened>>

addTermGroup ==
    /\ UserEvent
    /\ termGroupCounter < MaxCounter
    /\ Len(formData.searchTerms) < MaxUIGroups
    /\ termGroupCounter' = termGroupCounter + 1
    /\ updateURLPreview(
          [formData EXCEPT !.searchTerms =
              Append(@, newTermGroup(termGroupCounter + 1, formData))],
          currentDatabase)
    /\ UNCHANGED <<selectOptions, notificationText, clipboard, opened>>

removeTermGroup(groupId) ==
    /\ UserEvent
    /\ LET index == findIndex(formData.searchTerms, groupId)
       IN  updateURLPreview(
              IF index # 0
              THEN [formData EXCEPT !.searchTerms =
                      SubSeq(@, 1, index - 1) \o SubSeq(@, index + 1, Len(@))]
              ELSE formData,
              currentDatabase)
    /\ UNCHANGED <<termGroupCounter, selectOptions, notificationText, clipboard,
                   opened>>

addTermToGroup(groupId) ==
    /\ UserEvent
    /\ LET index == findIndex(formData.searchTerms, groupId)
       IN  IF index # 0
           THEN /\ Len(formData.searchTerms[index].terms) < MaxUITerms
                /\ updateURLPreview(
                      [formData EXCEPT !.searchTerms[index].terms = Append(@, <<>>)],
                      currentDatabase)
           ELSE UNCHANGED <<formData, currentDatabase, urlText, api, calls>>
    /\ UNCHANGED <<termGroupCounter, selectOptions, notificationText, clipboard,
                   opened>>

\* termIndex counts from 1 here and from 0 in the code.
updateTerm(groupId, termIndex, value) ==
    /\ UserEvent
    /\ LET index == findIndex(formData.searchTerms, groupId)
       IN  IF index # 0 /\ termIndex <= Len(formData.searchTerms[index].terms)
           THEN updateURLPreview(
                   [formData EXCEPT !.searchTerms[index].terms[termIndex] = value],
                   currentDatabase)
           ELSE UNCHANGED <<formData, currentDatabase, urlText, api, calls>>
    /\ UNCHANGED <<termGroupCounter, selectOptions, notificationText, clipboard,
                   opened>>

updateOperator(groupId, operator) ==
    /\ UserEvent
    /\ LET index == findIndex(formData.searchTerms, groupId)
       IN  IF index # 0
           THEN updateURLPreview(
                   [formData EXCEPT !.searchTerms[index].operator = operator],
                   currentDatabase)
           ELSE UNCHANGED <<formData, currentDatabase, urlText, api, calls>>
    /\ UNCHANGED <<termGroupCounter, selectOptions, notificationText, clipboard,
                   opened>>

handleYearChange(type, value) ==
    /\ UserEvent
    /\ updateURLPreview(
          IF type = "start" THEN [formData EXCEPT !.startYear = value]
          ELSE [formData EXCEPT !.endYear = value],
          currentDatabase)
    /\ UNCHANGED <<termGroupCounter, selectOptions, notificationText, clipboard,
                   opened>>

handleYearSliderChange(type, value) ==
    /\ UserEvent
    /\ updateURLPreview(
          IF type = "start" THEN [formData EXCEPT !.startYear = value]
          ELSE [formData EXCEPT !.endYear = value],
          currentDatabase)
    /\ UNCHANGED <<termGroupCounter, selectOptions, notificationText, clipboard,
                   opened>>

\* value is searchFieldSelect.value.
handleFieldChange(value) ==
    /\ UserEvent
    /\ updateURLPreview(
          [formData EXCEPT
              !.searchField = value,
              !.searchTerms = [i \in 1..Len(@) |-> [@[i] EXCEPT !.searchField = value]]],
          currentDatabase)
    /\ UNCHANGED <<termGroupCounter, selectOptions, notificationText, clipboard,
                   opened>>

handleResultsPerPageChange(value) ==
    /\ UserEvent
    /\ updateURLPreview([formData EXCEPT !.resultsPerPage = value], currentDatabase)
    /\ UNCHANGED <<termGroupCounter, selectOptions, notificationText, clipboard,
                   opened>>

\* !url || url.includes('Error') || url.includes('required')
noValidURL(url) ==
    url = <<>> \/ includes(url, S_Error) \/ includes(url, S_required)

copyURL ==
    /\ UserEvent
    /\ IF noValidURL(urlText)
       THEN /\ notificationText' = S_NoURLToCopy
            /\ UNCHANGED clipboard
       ELSE /\ clipboard' = urlText
            /\ notificationText' = S_Copied
    /\ UNCHANGED <<currentDatabase, formData, termGroupCounter, selectOptions,
                   urlText, opened, api, calls>>

openURL ==
    /\ UserEvent
    /\ IF noValidURL(urlText)
       THEN /\ notificationText' = S_NoURLToOpen
            /\ UNCHANGED opened
       ELSE /\ opened' = urlText
            /\ UNCHANGED notificationText
    /\ UNCHANGED <<currentDatabase, formData, termGroupCounter, selectOptions,
                   urlText, clipboard, api, calls>>

\* searchFieldSelect.options[0].value throws when the select has no option.
clearForm ==
    /\ UserEvent
    /\ IF Len(selectOptions) = 0
       THEN UNCHANGED <<formData, currentDatabase, urlText, api, calls,
                        termGroupCounter, notificationText>>
       ELSE LET reset == [database |-> formData.database, searchTerms |-> <<>>,
                          startYear |-> DefaultStartYear,
                          endYear |-> DefaultEndYear,
                          searchField |-> selectOptions[1],
                          resultsPerPage |-> DefaultResultsPerPage]
            IN  /\ termGroupCounter' = 1
                /\ updateURLPreview(
                      [reset EXCEPT !.searchTerms = <<newTermGroup(1, reset)>>],
                      currentDatabase)
                /\ notificationText' = S_FormCleared
    /\ UNCHANGED <<selectOptions, clipboard, opened>>

Next ==
    \/ init
    \/ \E database \in SupportedDatabases : handleDatabaseChange(database)
    \/ addTermGroup
    \/ \E groupId \in GroupIds : removeTermGroup(groupId)
    \/ \E groupId \in GroupIds : addTermToGroup(groupId)
    \/ \E groupId \in GroupIds, termIndex \in 1..MaxUITerms, value \in UITermValues :
          updateTerm(groupId, termIndex, value)
    \/ \E groupId \in GroupIds, operator \in UIOperators :
          updateOperator(groupId, operator)
    \/ \E type \in {"start", "end"}, value \in UIYearValues :
          handleYearChange(type, value)
    \/ \E type \in {"start", "end"}, value \in UIYearValues :
          handleYearSliderChange(type, value)
    \/ \E value \in {selectOptions[i] : i \in 1..Len(selectOptions)} :
          handleFieldChange(value)
    \/ \E value \in UIPageSizes : handleResultsPerPageChange(value)
    \/ copyURL
    \/ openURL
    \/ clearForm

Spec == Init /\ [][Next]_vars

-----------------------------------------------------------------------------
(* Properties of the application *)

\* The canonical default field of a target.
CanonicalField(database) ==
    IF database = "scopus" THEN S_TitleAbsKey ELSE S_AllMetadata

\* C3: a switch of the target leaves the field selection and the field of
\* every existing group at the canonical default of the new target.
C3_FieldsResetOnSwitch ==
    [][formData'.database # formData.database =>
          /\ formData'.searchField = CanonicalField(formData'.database)
          /\ \A i \in 1..Len(formData'.searchTerms) :
                formData'.searchTerms[i].searchField
                    = CanonicalField(formData'.database)]_vars

-----------------------------------------------------------------------------
(* Properties of the generator *)

Elems(seq) == {seq[i] : i \in 1..Len(seq)}

\* A term with a character that is not white space.
TermHasText(term) == \E i \in 1..Len(term) : term[i] \notin WhiteSpace

GroupHasText(group) ==
    \E t \in 1..Len(group.terms) : TermHasText(group.terms[t])

ModelHasText(fd) ==
    \E g \in 1..Len(fd.searchTerms) : GroupHasText(fd.searchTerms[g])

\* The number of terms with text, over all groups.
RECURSIVE CountTextIn(_)
CountTextIn(groups) ==
    IF Len(groups) = 0 THEN 0
    ELSE Cardinality({t \in 1..Len(groups[1].terms) : TermHasText(groups[1].terms[t])})
            + CountTextIn(Tail(groups))

CountText(fd) == CountTextIn(fd.searchTerms)

\* A term without the white space around it.
RECURSIVE StripSpaces(_)
StripSpaces(term) ==
    IF Len(term) = 0 THEN term
    ELSE IF Head(term) \in WhiteSpace THEN StripSpaces(Tail(term))
    ELSE IF term[Len(term)] \in WhiteSpace
         THEN StripSpaces(SubSeq(term, 1, Len(term) - 1))
    ELSE term

\* The model without its blank terms and without white space around terms.
StripModel(fd) ==
    [fd EXCEPT !.searchTerms =
        [g \in 1..Len(fd.searchTerms) |->
            LET kept == SelectSeq(fd.searchTerms[g].terms, TermHasText)
            IN  [fd.searchTerms[g] EXCEPT !.terms =
                    [t \in 1..Len(kept) |-> StripSpaces(kept[t])]]]]

InsertAt(seq, i, e) == SubSeq(seq, 1, i) \o <<e>> \o SubSeq(seq, i + 1, Len(seq))

\* Groups without a term that has text.
EmptyGroups == {g \in GroupKinds : ~GroupHasText(g)}

\* C1: the result of generateURL is a function of the model alone: a model
\* naming a supported target is serialized by the serializer of that target,
\* and two generateURL calls on the same model return the same result
\* whatever setDatabase calls came before or between them.
C1_CompileDependsOnModelOnly ==
    /\ [](api.op = "generateURL" /\ formData.database = "ieee"
            => api.ret = Return(generateIEEEURL(formData)))
    /\ [](api.op = "generateURL" /\ formData.database = "scopus"
            => api.ret = Return(generateScopusURL(formData)))
    /\ [][api.op = "generateURL" /\ api'.op = "generateURL"
            /\ formData' = formData => api'.ret = api.ret]_vars

\* C2: generateURL on a model whose target is not ieee or scopus throws the
\* unsupported-database error and returns no URL, whatever the generator's state.
C2_UnknownTargetThrows ==
    api.op = "generateURL" /\ formData.database \notin SupportedDatabases
        => api.ret = Throw(E_Unsupported)

\* C4: validateFormData reports the term-required error exactly when no term
\* of any group has text, whatever the years are, and then isValid is false.
C4_TermRequiredIff ==
    api.op = "validateFormData" =>
        /\ (E_TermRequired \in Elems(api.ret.errors)) <=> ~ModelHasText(formData)
        /\ ~ModelHasText(formData) => ~api.ret.isValid

C4_Witness ==
    /\ api.op = "validateFormData"
    /\ Len(formData.searchTerms) = 1
    /\ formData.searchTerms[1].terms = <<<<>>, <<" ", " ">>>>
    /\ formData.startYear <= formData.endYear
    /\ api.ret.errors = <<E_TermRequired>>
    /\ ~api.ret.isValid

\* C5: validateFormData reports the year-order error exactly when startYear is
\* greater than endYear (equal years are accepted), whatever the groups are,
\* and then isValid is false.
C5_YearOrderIff ==
    api.op = "validateFormData" =>
        /\ (E_YearOrder \in Elems(api.ret.errors))
              <=> formData.startYear > formData.endYear
        /\ formData.startYear > formData.endYear => ~api.ret.isValid

C5_Witness ==
    /\ api.op = "validateFormData"
    /\ ModelHasText(formData)
    /\ formData.startYear = 2030 /\ formData.endYear = 1900
    /\ api.ret.errors = <<E_YearOrder>>
    /\ ~api.ret.isValid

\* C6: validateFormData evaluates every rule: isValid is true exactly when the
\* error list is empty, a model with no term and with startYear > endYear gets
\* both errors, the term-required error first, and the warnings are reported
\* beside the errors.
C6_AllRulesEvaluated ==
    api.op = "validateFormData" =>
        /\ api.ret.isValid <=> api.ret.errors = <<>>
        /\ (~ModelHasText(formData) /\ formData.startYear > formData.endYear)
              => api.ret.errors = <<E_TermRequired, E_YearOrder>>
        /\ (formData.startYear < MinPlausibleYear
              \/ formData.endYear > MaxPlausibleYear)
              => W_YearRange \in Elems(api.ret.warnings)

C6_Witness ==
    /\ api.op = "validateFormData"
    /\ ~ModelHasText(formData)
    /\ formData.startYear = 1899 /\ formData.endYear = 1898
    /\ api.ret.errors = <<E_TermRequired, E_YearOrder>>
    /\ api.ret.warnings = <<W_YearRange>>

\* C7: the year-range warning is given exactly when startYear < 1900 or
\* endYear > 2030, the large-query warning exactly when more than 20 terms
\* have text, neither changes isValid, and generateURL returns a URL for a
\* model with more than 20 terms.
C7_WarningsDoNotBlock ==
    /\ api.op = "validateFormData" =>
        /\ (W_YearRange \in Elems(api.ret.warnings))
              <=> (formData.startYear < 1900 \/ formData.endYear > 2030)
        /\ (W_LargeQuery \in Elems(api.ret.warnings)) <=> CountText(formData) > 20
        /\ api.ret.isValid
              <=> (ModelHasText(formData) /\ formData.startYear <= formData.endYear)
    /\ (api.op = "generateURL" /\ CountText(formData) > 20)
          => /\ api.ret.kind = "return"
             /\ Len(api.ret.value) > 0

C7_Witness ==
    /\ api.op = "validateFormData"
    /\ CountText(formData) = 25
    /\ formData.startYear = 2020 /\ formData.endYear = 2024
    /\ api.ret.isValid
    /\ api.ret.warnings = <<W_LargeQuery>>

\* C8: generateURL returns, for a model with blank terms and with white space
\* around its terms, what it returns for the model without them.
C8_BlankTermsFiltered ==
    api.op = "generateURL" =>
        api.ret = generateURL(api.db, StripModel(formData))

C8_Witness ==
    /\ api.op = "generateURL"
    /\ api.ret.kind = "return"
    /\ Len(formData.searchTerms) = 1
    /\ formData.searchTerms[1].terms = <<<<>>, <<" ", " ">>, S_x>>

\* C9: a group without a term that has text, put before, between or after the
\* groups, leaves the query text of both serializers unchanged.
C9_EmptyGroupOmitted ==
    \A i \in 0..Len(formData.searchTerms) : \A e \in EmptyGroups :
        /\ api.op = "buildIEEEQueryText" =>
              buildIEEEQueryText(InsertAt(formData.searchTerms, i, e)) = api.ret.value
        /\ api.op = "buildScopusQuery" =>
              buildScopusQuery(InsertAt(formData.searchTerms, i, e)) = api.ret.value

C9_Witness ==
    /\ api.op = "buildScopusQuery"
    /\ Len(formData.searchTerms) = 3
    /\ GroupHasText(formData.searchTerms[1])
    /\ ~GroupHasText(formData.searchTerms[2])
    /\ GroupHasText(formData.searchTerms[3])
    /\ api.ret.value # <<>>

\* The groups that have text, in group order.
GroupsWithText(searchTerms) == SelectSeq(searchTerms, GroupHasText)

\* encodeURIComponent(' AND ')
S_EncodedAnd == <<"%","2","0","A","N","D","%","2","0">>

\* C10: the query text is the texts of the groups that have text, in group
\* order, every two consecutive ones joined by " AND " whatever the groups'
\* own operators are.
C10_GroupsJoinedByAnd ==
    /\ api.op = "buildIEEEQueryText" =>
          api.ret.value =
              LET gs == GroupsWithText(formData.searchTerms)
              IN  join([i \in 1..Len(gs) |-> buildIEEEQueryText(<<gs[i]>>)],
                       S_EncodedAnd)
    /\ api.op = "buildScopusQuery" =>
          api.ret.value =
              LET gs == GroupsWithText(formData.searchTerms)
              IN  join([i \in 1..Len(gs) |-> buildScopusQuery(<<gs[i]>>)],
                       S_EncodedAnd)

C10_Witness ==
    /\ api.op = "buildIEEEQueryText"
    /\ Len(formData.searchTerms) = 2
    /\ formData.searchTerms[1].operator = S_OR
    /\ formData.searchTerms[2].operator = S_OR
    /\ GroupHasText(formData.searchTerms[1])
    /\ formData.searchTerms[1] # formData.searchTerms[2]
    /\ GroupHasText(formData.searchTerms[2])

\* The atomic clause of one term in the grammar of a target:
\* IEEE ("<field>":"<term>"), Scopus <FIELD>("<term>").
AtomicClause(grammar, field, term) ==
    IF grammar = "ieee"
    THEN <<"(", "\"">> \o field \o <<"\"", ":", "\"">> \o term \o <<"\"", ")">>
    ELSE field \o <<"(", "\"">> \o term \o <<"\"", ")">>

\* A group with text as the grammar of a target renders it: one clause per
\* term with text, in the terms' order, joined by the group's operator with a
\* space on each side, inside one pair of parentheses.
RenderedGroup(grammar, group) ==
    LET kept == SelectSeq(group.terms, TermHasText)
    IN  <<"(">>
        \o join([i \in 1..Len(kept) |->
                    AtomicClause(grammar, group.searchField, StripSpaces(kept[i]))],
                <<" ">> \o group.operator \o <<" ">>)
        \o <<")">>

Scenario1(fd) ==
    /\ fd.searchTerms =
          <<Group(S_AllMetadata, S_OR, <<S_NeuralDecoding, S_BrainDecoding>>)>>
    /\ fd.startYear = 2019
    /\ fd.endYear = 2026

\* ("All Metadata":"neural decoding") OR ("All Metadata":"brain decoding")
S_Scenario1Clauses ==
    <<"(","\"","A","l","l"," ","M","e","t","a","d","a","t","a","\"",":",
      "\"","n","e","u","r","a","l"," ","d","e","c","o","d","i","n","g","\"",
      ")"," ","O","R"," ","(","\"","A","l","l"," ","M","e","t","a","d","a",
      "t","a","\"",":","\"","b","r","a","i","n"," ","d","e","c","o","d","i",
      "n","g","\"",")">>

S_Scenario1Ranges ==
    <<"r","a","n","g","e","s","=","2","0","1","9","_","2","0","2","6","_",
      "Y","e","a","r">>

S_QueryTextIs == <<"q","u","e","r","y","T","e","x","t","=">>

\* The value of queryText in the URL for a query text before encoding: the
\* text goes through encodeURIComponent and then through URLSearchParams.
QueryTextParam(fragment) ==
    S_QueryTextIs \o formEncode(encodeURIComponent(fragment)) \o <<"&">>

FirstIndex(seq, ch) ==
    LET hits == {i \in 1..Len(seq) : seq[i] = ch}
    IN  IF hits = {} THEN 0 ELSE CHOOSE i \in hits : \A j \in hits : i <= j

\* The parts of seq between the occurrences of ch.
RECURSIVE Split(_, _)
Split(seq, ch) ==
    LET i == FirstIndex(seq, ch)
    IN  IF i = 0 THEN <<seq>>
        ELSE <<SubSeq(seq, 1, i - 1)>> \o Split(SubSeq(seq, i + 1, Len(seq)), ch)

\* The parameters of a URL as it is written: the text after the ? cut at
\* every &, each part cut at its first =.
QueryParams(url) ==
    LET parts == Split(SubSeq(url, FirstIndex(url, "?") + 1, Len(url)), "&")
    IN  [i \in 1..Len(parts) |->
            LET eq == FirstIndex(parts[i], "=")
            IN  [name  |-> SubSeq(parts[i], 1, eq - 1),
                 value |-> SubSeq(parts[i], eq + 1, Len(parts[i]))]]

S_PUBYEAR == <<"P","U","B","Y","E","A","R">>

\* AND PUBYEAR > <startYear> AND PUBYEAR < <endYear + 1>
YearClause(startYear, endYear) ==
    S_AND \o <<" ">> \o S_PUBYEAR \o <<" ", ">", " ">> \o NumberToString(startYear)
        \o <<" ">> \o S_AND \o <<" ">> \o S_PUBYEAR \o <<" ", "<", " ">>
        \o NumberToString(endYear + 1)

\* The encoded boolean expression of a model in the grammar of Scopus.
ScopusExpression(fd) ==
    LET gs == GroupsWithText(fd.searchTerms)
    IN  join([i \in 1..Len(gs) |->
                encodeURIComponent(RenderedGroup("scopus", gs[i]))],
             S_EncodedAnd)

\* C13: in every URL the Scopus serializer returns, the parameter s occurs
\* exactly once, its value is the encoded boolean expression, one space and
\* the encoded clause AND PUBYEAR > startYear AND PUBYEAR < endYear+1, and
\* no other parameter holds the year range.
C13_ScopusYearRange ==
    (api.op = "generateURL" /\ api.db = "scopus") =>
        /\ api.ret.kind = "return"
        /\ LET params == QueryParams(api.ret.value)
               named == {i \in 1..Len(params) : params[i].name = <<"s">>}
           IN  /\ Cardinality(named) = 1
               /\ \A i \in named :
                     params[i].value =
                         formEncode(
                             ScopusExpression(formData) \o <<" ">>
                                 \o encodeURIComponent(
                                       YearClause(formData.startYear,
                                                  formData.endYear)))
               /\ \A i \in (1..Len(params)) \ named :
                     /\ ~includes(params[i].value, S_PUBYEAR)
                     /\ ~includes(params[i].value,
                                  NumberToString(formData.startYear))
                     /\ ~includes(params[i].value,
                                  NumberToString(formData.endYear))

\* Scenario 2: the years 2019 and 2026 give > 2019 and < 2027.
C13_Witness ==
    /\ api.op = "generateURL"
    /\ api.db = "scopus"
    /\ formData.database = "scopus"
    /\ formData.searchTerms =
          <<Group(S_TitleAbsKey, S_OR, <<S_NeuralDecoding, S_BrainDecoding>>)>>
    /\ formData.startYear = 2019
    /\ formData.endYear = 2026
    /\ includes(api.ret.value,
                formEncode(encodeURIComponent(
                    <<"A","N","D"," ","P","U","B","Y","E","A","R"," ",">"," ",
                      "2","0","1","9"," ","A","N","D"," ","P","U","B","Y","E",
                      "A","R"," ","<"," ","2","0","2","7">>)))

\* The names of the parameters of the two URLs, in their order.
IEEEParamNames ==
    << <<"a","c","t","i","o","n">>, <<"n","e","w","s","e","a","r","c","h">>, <<"m","a","t","c","h","B","o","o","l","e","a","n">>, <<"q","u","e","r","y","T","e","x","t">>, <<"r","a","n","g","e","s">> >>

ScopusParamNames ==
    << <<"s","o","r","t">>,
       <<"s","r","c">>,
       <<"s","o","t">>,
       <<"s","d","t">>,
       <<"s","l">>,
       <<"s">>,
       <<"o","r","i","g","i","n">>,
       <<"e","d","i","t","S","a","v","e","S","e","a","r","c","h">>,
       <<"l","i","m","i","t">> >>

\* The characters of a URL whose parameters are all encoded.
URLCharacters ==
    AlphaNum \cup {":", "/", ".", "?", "&", "=", "%", "+", "-", "_", "*"}

\* A URL with the base address, the ? and every parameter of names, each
\* once and written name=value, and with no character left unencoded.
WellFormedURL(url, baseURL, names) ==
    /\ SubSeq(url, 1, Len(baseURL) + 1) = baseURL \o <<"?">>
    /\ \A i \in 1..Len(url) : url[i] \in URLCharacters
    /\ LET params == QueryParams(url)
       IN  [i \in 1..Len(params) |-> params[i].name] = names

\* The value of the parameter name of a URL.
ParamValue(url, name) ==
    LET params == QueryParams(url)
    IN  params[CHOOSE i \in 1..Len(params) : params[i].name = name].value

S_EncodedOpen == <<"%","2","8">>
S_EncodedClose == <<"%","2","9">>

\* C14: on a model without a term that has text both serializers return
\* normally: the query text is the empty string, the URL is complete, with
\* every parameter, and holds no parenthesis; queryText is empty in the IEEE
\* URL and s holds a space and the year clause alone in the Scopus URL.
C14_EmptyQueryDegrades ==
    ~ModelHasText(formData) =>
        /\ api.op \in {"buildIEEEQueryText", "buildScopusQuery"} =>
              api.ret = Return(<<>>)
        /\ api.op = "generateURL" =>
              /\ api.ret.kind = "return"
              /\ ~includes(api.ret.value, S_EncodedOpen)
              /\ ~includes(api.ret.value, S_EncodedClose)
        /\ (api.op = "generateURL" /\ api.db = "ieee") =>
              /\ WellFormedURL(api.ret.value, IEEE_baseURL, IEEEParamNames)
              /\ ParamValue(api.ret.value, <<"q","u","e","r","y","T","e","x","t">>)
                    = <<>>
        /\ (api.op = "generateURL" /\ api.db = "scopus") =>
              /\ WellFormedURL(api.ret.value, Scopus_baseURL, ScopusParamNames)
              /\ ParamValue(api.ret.value, <<"s">>)
                    = formEncode(<<" ">> \o encodeURIComponent(
                          YearClause(formData.startYear, formData.endYear)))

C14_Witness ==
    /\ api.op = "generateURL"
    /\ api.db = "scopus"
    /\ formData.searchTerms =
          <<Group(S_TitleAbsKey, S_AND, <<<<>>, <<" ", " ">>>>),
            Group(S_AllMetadata, S_OR, <<>>)>>
    /\ api.ret.kind = "return"
    /\ WellFormedURL(api.ret.value, Scopus_baseURL, ScopusParamNames)

-----------------------------------------------------------------------------
(* Properties of the preview, of the copy and open guards and of the groups *)

\* A model validateFormData has to accept: a term with text and the years
\* in order.
ValidModel(fd) == ModelHasText(fd) /\ fd.startYear <= fd.endYear

\* The errors of a model, in the order of the rules.
ExpectedErrors(fd) ==
    (IF ~ModelHasText(fd) THEN <<E_TermRequired>> ELSE <<>>)
        \o (IF fd.startYear > fd.endYear THEN <<E_YearOrder>> ELSE <<>>)

\* C15: in every run of updateURLPreview generateURL is called only right
\* after a validateFormData call on the same form data that returned valid,
\* and that form data is the current one; when the current model has an error
\* generateURL is not called and the preview shows the error list.
C15_CallerGating ==
    /\ \A i \in 1..Len(calls) :
          /\ calls[i].arg = formData
          /\ calls[i].op = "generateURL" =>
                /\ i > 1
                /\ calls[i - 1].op = "validateFormData"
                /\ calls[i - 1].arg = calls[i].arg
                /\ calls[i - 1].ret.isValid
                /\ ValidModel(calls[i].arg)
    /\ (calls # <<>> /\ ~ValidModel(formData)) =>
          /\ \A i \in 1..Len(calls) : calls[i].op # "generateURL"
          /\ urlText = join(ExpectedErrors(formData), <<",", " ">>)
    /\ (calls # <<>> /\ ValidModel(formData)) =>
          \E i \in 1..Len(calls) : calls[i].op = "generateURL"

C15_Witness ==
    /\ pc = "ready"
    /\ ModelHasText(formData)
    /\ formData.startYear = 2025 /\ formData.endYear = 2020
    /\ Len(calls) = 1
    /\ calls[1].op = "validateFormData"
    /\ urlText = E_YearOrder

\* The text the preview has to show for a model: the errors joined by ', '
\* when it has any, the URL generateURL returns otherwise.
ExpectedPreview(database, fd) ==
    IF ~ValidModel(fd) THEN join(ExpectedErrors(fd), <<",", " ">>)
    ELSE generateURL(database, fd).value

\* C16: in every state in which the application waits for the user, from the
\* end of init on and after every handler, the preview shows the result for
\* the current model: its errors joined by ', ' or its URL.
C16_PreviewIsCurrent ==
    pc = "ready" => urlText = ExpectedPreview(currentDatabase, formData)

\* C17: from the end of init on and after every handler the generator's
\* currentDatabase is the database of the form data, and the URL of the last
\* preview is the one of the serializer of that database.
C17_TargetAgreement ==
    pc = "ready" =>
        /\ currentDatabase = formData.database
        /\ \A i \in 1..Len(calls) :
              calls[i].op = "generateURL" =>
                  calls[i].ret =
                      IF formData.database = "ieee"
                      THEN Return(generateIEEEURL(formData))
                      ELSE Return(generateScopusURL(formData))

C17_Witness ==
    /\ pc = "ready"
    /\ formData.database = "scopus"
    /\ currentDatabase = "scopus"
    /\ notificationText = S_FormCleared
    /\ Len(calls) = 1

\* The preview holds the URL generated from the current model, which is valid.
HoldsValidURL ==
    /\ ValidModel(formData)
    /\ urlText = generateURL(currentDatabase, formData).value

\* C18: copyURL writes the preview to the clipboard and openURL opens it
\* exactly when the preview holds the URL generated from a valid model,
\* whatever its terms are; otherwise, and so whenever the preview holds the
\* validation errors, they change nothing and notify 'No valid URL'.
C18_CopyOpenGuard ==
    [][/\ copyURL =>
            IF HoldsValidURL
            THEN clipboard' = urlText /\ notificationText' = S_Copied
            ELSE clipboard' = clipboard /\ notificationText' = S_NoURLToCopy
       /\ openURL =>
            IF HoldsValidURL
            THEN opened' = urlText /\ notificationText' = notificationText
            ELSE opened' = opened /\ notificationText' = S_NoURLToOpen]_vars

\* The ids of the groups, in group order.
GroupIdsOf(fd) == [i \in 1..Len(fd.searchTerms) |-> fd.searchTerms[i].id]

\* What a step of a handler called with groupId may do to the model: nothing
\* when no group has the id; otherwise nothing outside searchTerms, and in
\* searchTerms the groups with another id stay as they are and in their
\* order, the group with the id staying at its place or being removed.
TouchesOnly(groupId) ==
    LET old == formData.searchTerms
        new == formData'.searchTerms
        Other(g) == g.id # groupId
    IN  IF \A i \in 1..Len(old) : old[i].id # groupId
        THEN formData' = formData
        ELSE /\ [formData' EXCEPT !.searchTerms = old] = formData
             /\ SelectSeq(new, Other) = SelectSeq(old, Other)
             /\ \/ GroupIdsOf(formData') = GroupIdsOf(formData)
                \/ GroupIdsOf(formData') = SelectSeq(GroupIdsOf(formData),
                                                   LAMBDA id : id # groupId)

\* C19: the groups of the form data always have pairwise distinct ids, and
\* updateTerm, updateOperator, addTermToGroup and removeTermGroup called with
\* an id change at most the group with that id, leaving every other group and
\* the order of the groups as they are, and change nothing when no group has
\* the id: a step that does more is a step of none of them with that id.
C19_GroupIdentity ==
    /\ [](\A i, j \in 1..Len(formData.searchTerms) :
            i # j => formData.searchTerms[i].id # formData.searchTerms[j].id)
    /\ [][\A groupId \in GroupIds :
            \/ TouchesOnly(groupId)
            \/ ~(\/ \E termIndex \in 1..MaxUITerms, value \in UITermValues :
                       updateTerm(groupId, termIndex, value)
                 \/ \E operator \in UIOperators :
                       updateOperator(groupId, operator)
                 \/ addTermToGroup(groupId)
                 \/ removeTermGroup(groupId))]_vars

C19_Witness ==
    /\ GroupIdsOf(formData) = <<1, 2>>
    /\ formData.searchTerms[1].terms = <<S_NeuralDecoding, S_BrainDecoding>>
    /\ formData.searchTerms[1].operator = S_OR
    /\ formData.searchTerms[2].terms = <<<<>>, <<>>>>
    /\ formData.searchTerms[2].operator = S_AND

=============================================================================
